---- MODULE Spec2Model ----
(***************************************************************************)
(* DeepSentinel AI server: the FaceAnalyzer blink tracker and metric       *)
(* computation (ai_server/face_analyzer.py), the score aggregator          *)
(* calculate_overall_score and the streaming session websocket_analyze     *)
(* (ai_server/main.py).                                                     *)
(*                                                                         *)
(* Units.  Floating-point quantities are kept as scaled integers:          *)
(*   EAR, MAR            hundredths            (0.2  is 20)                *)
(*   angles              whole degrees                                     *)
(*   metric fields       hundredths            (100  is 10000)             *)
(*   score               ten-thousandths       (75   is 750000)            *)
(*   confidence          millionths            (0.95 is 950000)            *)
(***************************************************************************)
EXTENDS Integers, Sequences, FiniteSets

VARIABLES
    prev_ear,      \* FaceAnalyzer.prev_ear of each analyzer instance
    blink_count,   \* FaceAnalyzer.blink_count of each instance
    frame_count,   \* FaceAnalyzer.frame_count of each instance
    call,          \* the most recent analyze_frame/reset call and its outcome
    hist,          \* avg_ear of the face-detected frames fed since construction/reset
    ws_state,      \* position of each websocket_analyze coroutine
    has_analyzer,  \* 'analyzer' in locals() of each websocket_analyze
    frame_skip,    \* websocket_analyze's local frame_skip
    outbox,        \* messages sent with websocket.send_json, oldest first
    step,          \* the most recent loop iteration of each session
    metrics,       \* argument of the most recent calculate_overall_score call
    result,        \* its return value
    prev_result    \* score and return value of the call before it

vars == << prev_ear, blink_count, frame_count, call, hist,
           ws_state, has_analyzer, frame_skip, outbox, step,
           metrics, result, prev_result >>

analyzerVars == << prev_ear, blink_count, frame_count, call, hist >>
sessionVars  == << ws_state, has_analyzer, frame_skip, outbox, step >>
scoreVars    == << metrics, result, prev_result >>

----------------------------------------------------------------------------
(* Bounds of the model *)

MaxCalls == 5      \* analyze_frame calls on one analyzer between resets
MaxMsgs  == 4      \* inbound messages of one streaming session

(* Program constants *)

None == -1             \* prev_ear = None
NaN  == -2             \* avg_ear when the eye width C is 0 (0/0 in calculate_ear)
EAR_THRESHOLD == 20    \* 0.2
ASSUMED_FPS   == 30

Instances == {"i1", "i2"}    \* FaceAnalyzer objects, one per connection

Min(a, b) == IF a <= b THEN a ELSE b
Max(a, b) == IF a >= b THEN a ELSE b
Abs(a)    == IF a < 0 THEN -a ELSE a

(* IEEE comparisons: every ordered comparison with NaN is false *)
FLt(a, b) == a # NaN /\ b # NaN /\ a < b
FGe(a, b) == a # NaN /\ b # NaN /\ a >= b

----------------------------------------------------------------------------
(* Frames: what the external collaborators yield for one decoded image *)

EarValues == {10, 15, 20, 25, NaN}
(* mouth ratio, head pose (ok = FALSE: cv2.solvePnP raises) and image statistics *)
Rests == { [mar |-> 30,
            pose |-> [ok |-> TRUE, pitch |-> 0, yaw |-> 0, roll |-> 0],
            quality |-> [brightness_std |-> 0, laplacian_var |-> 2000]],
           [mar |-> 150,
            pose |-> [ok |-> TRUE, pitch |-> -60, yaw |-> 120, roll |-> 10],
            quality |-> [brightness_std |-> 100, laplacian_var |-> 50]],
           [mar |-> 0,
            pose |-> [ok |-> TRUE, pitch |-> 5, yaw |-> -3, roll |-> 150],
            quality |-> [brightness_std |-> 0, laplacian_var |-> 2000]],
           [mar |-> 30,
            pose |-> [ok |-> FALSE, pitch |-> 0, yaw |-> 0, roll |-> 0],
            quality |-> [brightness_std |-> 0, laplacian_var |-> 2000]] }

NoFaceFrame ==
    [det |-> "noface", ear |-> 0, mar |-> 0,
     pose |-> [ok |-> TRUE, pitch |-> 0, yaw |-> 0, roll |-> 0],
     quality |-> [brightness_std |-> 0, laplacian_var |-> 0]]
DetectorFailFrame == [NoFaceFrame EXCEPT !.det = "raise"]
FaceFrames ==
    { [det |-> "face", ear |-> e, mar |-> r.mar, pose |-> r.pose,
       quality |-> r.quality] : e \in EarValues, r \in Rests }
Frames == {NoFaceFrame, DetectorFailFrame} \cup FaceFrames

----------------------------------------------------------------------------
(* FaceAnalyzer *)

InitialState == [prev_ear |-> None, blink_count |-> 0, frame_count |-> 0]

NoMetrics ==
    [eye_blink_rate |-> 0, lip_sync_score |-> 0, lighting_consistency |-> 0,
     facial_artifacts |-> 0, texture_quality |-> 0, motion_smoothness |-> 0]

(* mutant of BlinkEdge: level-triggered, every closed frame counts *)
BlinkEdge_level(prev, avg_ear) == FLt(avg_ear, EAR_THRESHOLD)

(* lines 189-191: the blink edge *)
BlinkEdge(prev, avg_ear) ==
    FLt(avg_ear, EAR_THRESHOLD) /\ (prev = None \/ FGe(prev, EAR_THRESHOLD))

(* mutant of UpdateBlink: the assignment self.prev_ear = avg_ear is missing *)
UpdateBlink_stale_prev(st, avg_ear) ==
    [prev_ear    |-> st.prev_ear,
     blink_count |-> IF BlinkEdge(st.prev_ear, avg_ear)
                     THEN st.blink_count + 1 ELSE st.blink_count,
     frame_count |-> st.frame_count + 1]

(* lines 189-194: the state after the blink update of a face-detected frame *)
UpdateBlink(st, avg_ear) ==
    [prev_ear    |-> avg_ear,
     blink_count |-> IF BlinkEdge(st.prev_ear, avg_ear)
                     THEN st.blink_count + 1 ELSE st.blink_count,
     frame_count |-> st.frame_count + 1]

(* line 197, floor to hundredths *)
blink_rate(st) ==
    (st.blink_count * 60 * ASSUMED_FPS * 100) \div Max(st.frame_count, 1)

(* line 210 *)
lighting_score(q) == Min(10000, Max(0, 10000 - q.brightness_std * 50))

(* line 214 *)
texture_score(q) == Min(10000, q.laplacian_var * 10)

(* lines 216-222: the six metric fields *)
MetricsOf(st, f) ==
    [eye_blink_rate       |-> Min(10000, blink_rate(st)),
     lip_sync_score       |-> Min(10000, (100 - f.mar) * 100),
     lighting_consistency |-> lighting_score(f.quality),
     facial_artifacts     |-> Max(0, 10000 - Abs(f.pose.yaw) * 100
                                           - Abs(f.pose.pitch) * 100),
     texture_quality      |-> texture_score(f.quality),
     motion_smoothness    |-> Min(10000, 9500 - Abs(f.pose.roll) * 100)]

(* analyze_frame as a function of the analyzer state and the frame:        *)
(* the state it leaves and what the caller gets ("raise", "None" or the    *)
(* metrics dict).                                                          *)
analyze_frame(st, f) ==
    IF f.det = "raise"
    THEN [st |-> st, kind |-> "raise", metrics |-> NoMetrics]
    ELSE IF f.det = "noface"
    THEN [st |-> st, kind |-> "None", metrics |-> NoMetrics]
    ELSE LET st2 == UpdateBlink(st, f.ear) IN
         IF ~f.pose.ok
         THEN [st |-> st2, kind |-> "raise", metrics |-> NoMetrics]
         ELSE [st |-> st2, kind |-> "dict", metrics |-> MetricsOf(st2, f)]

StateOf(self) ==
    [prev_ear    |-> prev_ear[self],
     blink_count |-> blink_count[self],
     frame_count |-> frame_count[self]]

NoCall ==
    [op |-> "none", self |-> "i1", frame |-> NoFaceFrame, pre |-> InitialState,
     kind |-> "none", metrics |-> NoMetrics]

(* one call analyzer.analyze_frame(frame) *)
AnalyzeFrame(self, f) ==
    /\ frame_count[self] < MaxCalls
    /\ LET r == analyze_frame(StateOf(self), f) IN
       /\ prev_ear'    = [prev_ear    EXCEPT ![self] = r.st.prev_ear]
       /\ blink_count' = [blink_count EXCEPT ![self] = r.st.blink_count]
       /\ frame_count' = [frame_count EXCEPT ![self] = r.st.frame_count]
       /\ call' = [op |-> "analyze_frame", self |-> self, frame |-> f,
                   pre |-> StateOf(self), kind |-> r.kind, metrics |-> r.metrics]
       /\ hist' = IF f.det = "face"
                   THEN [hist EXCEPT ![self] = Append(@, f.ear)] ELSE hist
    /\ UNCHANGED << sessionVars, scoreVars >>

(* lines 229-235 *)
reset(st) == InitialState

Reset(self) ==
    /\ LET st == reset(StateOf(self)) IN
       /\ prev_ear'    = [prev_ear    EXCEPT ![self] = st.prev_ear]
       /\ blink_count' = [blink_count EXCEPT ![self] = st.blink_count]
       /\ frame_count' = [frame_count EXCEPT ![self] = st.frame_count]
    /\ call' = [NoCall EXCEPT !.op = "reset", !.self = self, !.pre = StateOf(self)]
    /\ hist' = [hist EXCEPT ![self] = << >>]
    /\ UNCHANGED << sessionVars, scoreVars >>

----------------------------------------------------------------------------
(* Score aggregator: calculate_overall_score (main.py) *)

(* lines 113-120: the weighted sum, in ten-thousandths *)
score(m) ==
      m.eye_blink_rate * 15
    + m.lip_sync_score * 25
    + m.lighting_consistency * 20
    + (10000 - m.facial_artifacts) * 25
    + m.texture_quality * 10
    + m.motion_smoothness * 5

(* mutant of confidence_real: the "fake" formula pasted into the "real" branch *)
confidence_real_pasted(s) == Min(1000000 - s, 950000)

(* mutant of confidence_uncertain: the distance from 50 is halved *)
confidence_uncertain_halved(s) == 500000 + (s - 500000) \div 2

(* the three confidence formulas, lines 125, 128 and 131, in millionths *)
confidence_real(s)      == Min(s, 950000)
confidence_uncertain(s) == 500000 + (s - 500000)
confidence_fake(s)      == Min(1000000 - s, 950000)

(* mutant of classify: strict thresholds *)
classify_strict(s) ==
    IF s > 750000
    THEN [label |-> "real", confidence |-> confidence_real(s)]
    ELSE IF s > 500000
    THEN [label |-> "uncertain", confidence |-> confidence_uncertain(s)]
    ELSE [label |-> "fake", confidence |-> confidence_fake(s)]

(* lines 123-133 *)
classify(s) ==
    IF s >= 750000
    THEN [label |-> "real", confidence |-> confidence_real(s)]
    ELSE IF s >= 500000
    THEN [label |-> "uncertain", confidence |-> confidence_uncertain(s)]
    ELSE [label |-> "fake", confidence |-> confidence_fake(s)]

calculate_overall_score(m) == classify(score(m))

NoResult == [label |-> "none", confidence |-> 0]
NoPrev   == [score |-> 0, label |-> "none", confidence |-> 0]

(* Metrics values handed to calculate_overall_score: each field in [0, 100] *)
MetricInputs ==
    [eye_blink_rate       : {0, 2000, 9000},
     lip_sync_score       : {6000, 9000, 10000},
     lighting_consistency : {0, 5000, 9000},
     facial_artifacts     : {1000, 8000, 10000},
     texture_quality      : {5500, 9000},
     motion_smoothness    : {6000, 9000}]

(* Metrics values of a following call *)
NextInputs ==
    [eye_blink_rate       : {0, 10000},
     lip_sync_score       : {0, 10000},
     lighting_consistency : {0, 10000},
     facial_artifacts     : {0, 10000},
     texture_quality      : {0, 10000},
     motion_smoothness    : {0, 10000}]

(* the first call of calculate_overall_score, on the metrics drawn by InitScore *)
Classify ==
    /\ result = NoResult
    /\ result' = calculate_overall_score(metrics)
    /\ UNCHANGED << metrics, prev_result, analyzerVars, sessionVars >>

(* a following call, on other metrics *)
ClassifyNext(m) ==
    /\ result # NoResult
    /\ prev_result' = [score |-> score(metrics), label |-> result.label,
                        confidence |-> result.confidence]
    /\ metrics' = m
    /\ result' = calculate_overall_score(m)
    /\ UNCHANGED << analyzerVars, sessionVars >>

----------------------------------------------------------------------------
(* Streaming session: websocket_analyze (main.py) *)

(* main.py imports (lines 1-12) bind no name np: the np.frombuffer of line 367 *)
(* raises NameError on every frame that reaches it                             *)
np_bound == FALSE

(* Inbound text messages.  json: what json.loads makes of the text; b64: whether *)
(* base64.b64decode accepts the frame field; image: whether cv2.imdecode yields  *)
(* an image; frame: what the collaborators yield for that image.                *)
Msg(j, b, i, f) == [json |-> j, b64 |-> b, image |-> i, frame |-> f]

SessionFrames ==
    {NoFaceFrame, DetectorFailFrame}
    \cup { f \in FaceFrames : f.ear \in {10, 25} /\ f.mar = 30 }

Messages ==
    { Msg("invalid", "ok", "none", NoFaceFrame),
      Msg("notdict", "ok", "none", NoFaceFrame),
      Msg("dict", "bad", "none", NoFaceFrame),
      Msg("dict", "ok", "none", NoFaceFrame) }
    \cup { Msg("dict", "ok", "image", f) : f \in SessionFrames }

(* Outbound messages (the timestamp is left out) *)
ErrorMsg(e) ==
    [type |-> "error", error |-> e, face_detected |-> FALSE,
     result |-> NoResult, metrics |-> NoMetrics]
NoFaceMsg ==
    [type |-> "noface", error |-> "", face_detected |-> FALSE,
     result |-> NoResult, metrics |-> NoMetrics]
ResultMsg(res, m) ==
    [type |-> "result", error |-> "", face_detected |-> TRUE,
     result |-> res, metrics |-> m]

(* mutant of count_frame: one counter at module level, shared by the connections *)
count_frame_shared(fs, s) == [i \in DOMAIN fs |-> fs[i] + 1]

(* lines 352 and 360: frame_skip is a local of the coroutine of connection s *)
count_frame(fs, s) == [fs EXCEPT ![s] = @ + 1]

(* mutant of skipped: two of every three frames are dropped *)
skipped_two_of_three(n) == n % 3 # 0

(* line 361: the frame is dropped *)
skipped(n) == n % 2 # 0

(* mutant of frame_exception: the exception leaves the loop (no inner try) *)
frame_exception_escapes(st, e) ==
    [st |-> st, reply |-> ErrorMsg(e), next |-> "CLOSED"]

(* lines 429-434: an exception of the frame's try block is reported and the *)
(* loop goes on                                                             *)
frame_exception(st, e) ==
    [st |-> st, reply |-> ErrorMsg(e), next |-> "ACTIVE"]

(* lines 364-434: one processed frame, from the analyzer state and the message: *)
(* the analyzer state it leaves, the message it sends and where the loop goes   *)
process_frame(st, msg) ==
    IF msg.json = "notdict"
    THEN frame_exception(st, "AttributeError")            \* line 366, .get
    ELSE IF msg.b64 = "bad"
    THEN frame_exception(st, "binascii.Error")            \* line 366, b64decode
    ELSE IF ~np_bound
    THEN frame_exception(st, "NameError")                 \* line 367
    ELSE IF msg.image # "image"
    THEN [st |-> st, reply |-> ErrorMsg("Invalid frame data"), next |-> "ACTIVE"]
    ELSE LET r == analyze_frame(st, msg.frame) IN
         IF r.kind = "raise"
         THEN frame_exception(r.st, "cv2.error")
         ELSE IF r.kind = "None"
         THEN [st |-> r.st, reply |-> NoFaceMsg, next |-> "ACTIVE"]
         ELSE [st |-> r.st,
               reply |-> ResultMsg(calculate_overall_score(r.metrics), r.metrics),
               next |-> "ACTIVE"]

SetAnalyzer(self, st) ==
    /\ prev_ear'    = [prev_ear    EXCEPT ![self] = st.prev_ear]
    /\ blink_count' = [blink_count EXCEPT ![self] = st.blink_count]
    /\ frame_count' = [frame_count EXCEPT ![self] = st.frame_count]

StepRec(o, s, msg, sent) ==
    [op |-> o, prev_op |-> step[s].op, msg |-> msg, sent |-> sent,
     pre |-> StateOf(s), pre_sent |-> Len(outbox[s])]

NoStep ==
    [op |-> "none", prev_op |-> "none", msg |-> Msg("dict", "ok", "none", NoFaceFrame),
     sent |-> FALSE, pre |-> InitialState, pre_sent |-> 0]

(* mutant of close_session: the exception is swallowed and the loop goes on *)
close_session_goes_on(st, constructed) ==
    [st |-> IF constructed THEN reset(st) ELSE st, next |-> "ACTIVE"]

(* lines 436-444: the try block is left by an exception; the analyzer, if one *)
(* was constructed, is reset and the coroutine returns                       *)
close_session(st, constructed) ==
    [st |-> IF constructed THEN reset(st) ELSE st, next |-> "CLOSED"]

(* lines 342-343: the connection is accepted (a handshake that fails leaves *)
(* no session behind and is not followed here)                             *)
Accept(s) ==
    /\ ws_state[s] = "CREATED"
    /\ ws_state' = [ws_state EXCEPT ![s] = "ACTIVE"]
    /\ step' = [step EXCEPT ![s] = StepRec("accept", s, NoStep.msg, FALSE)]
    /\ UNCHANGED << has_analyzer, frame_skip, outbox, analyzerVars, scoreVars >>

(* lines 346-352: the imports and analyzer = FaceAnalyzer(); ok = FALSE: one of *)
(* them raises, caught at line 438                                              *)
Construct(s, ok) ==
    /\ ws_state[s] = "ACTIVE"
    /\ ~has_analyzer[s]
    /\ IF ok
       THEN /\ has_analyzer' = [has_analyzer EXCEPT ![s] = TRUE]
            /\ SetAnalyzer(s, InitialState)
            /\ frame_skip' = [frame_skip EXCEPT ![s] = 0]
            /\ step' = [step EXCEPT ![s] = StepRec("construct", s, NoStep.msg, FALSE)]
            /\ UNCHANGED ws_state
       ELSE LET c == close_session(StateOf(s), FALSE) IN
            /\ SetAnalyzer(s, c.st)
            /\ ws_state' = [ws_state EXCEPT ![s] = c.next]
            /\ step' = [step EXCEPT ![s] = StepRec("close", s, NoStep.msg, FALSE)]
            /\ UNCHANGED << has_analyzer, frame_skip >>
    /\ UNCHANGED << outbox, call, hist, scoreVars >>

(* lines 354-434: one iteration of the loop on an inbound message; sent = FALSE: *)
(* websocket.send_json raises because the transport is gone                      *)
ReceiveFrame(s, msg, sent) ==
    /\ ws_state[s] = "ACTIVE"
    /\ has_analyzer[s]
    /\ frame_skip[s] < MaxMsgs
    /\ IF msg.json = "invalid"
       THEN \* line 357: json.loads raises, caught at line 438
            LET c == close_session(StateOf(s), has_analyzer[s]) IN
            /\ sent = FALSE
            /\ SetAnalyzer(s, c.st)
            /\ ws_state' = [ws_state EXCEPT ![s] = c.next]
            /\ step' = [step EXCEPT ![s] = StepRec("close", s, msg, FALSE)]
            /\ UNCHANGED << frame_skip, outbox, hist >>
       ELSE IF skipped(frame_skip[s] + 1)
       THEN /\ sent = FALSE
            /\ frame_skip' = count_frame(frame_skip, s)
            /\ step' = [step EXCEPT ![s] = StepRec("drop", s, msg, FALSE)]
            /\ UNCHANGED << ws_state, outbox, prev_ear, blink_count, frame_count, hist >>
       ELSE LET r == process_frame(StateOf(s), msg)
                c == close_session(r.st, has_analyzer[s])
                reached == r.st.frame_count # frame_count[s]
            IN
            /\ frame_skip' = count_frame(frame_skip, s)
            /\ step' = [step EXCEPT ![s] = StepRec("frame", s, msg, sent)]
            /\ hist' = IF reached
                       THEN [hist EXCEPT ![s] = Append(@, msg.frame.ear)] ELSE hist
            /\ IF sent /\ r.next = "ACTIVE"
               THEN /\ outbox' = [outbox EXCEPT ![s] = Append(@, r.reply)]
                    /\ SetAnalyzer(s, r.st)
                    /\ UNCHANGED ws_state
               ELSE /\ SetAnalyzer(s, c.st)
                    /\ ws_state' = [ws_state EXCEPT ![s] = c.next]
                    /\ UNCHANGED outbox
    /\ UNCHANGED << has_analyzer, call, scoreVars >>

(* line 356: receive_text raises WebSocketDisconnect, caught at line 436 *)
Disconnect(s) ==
    /\ ws_state[s] = "ACTIVE"
    /\ has_analyzer[s]
    /\ LET c == close_session(StateOf(s), has_analyzer[s]) IN
       /\ SetAnalyzer(s, c.st)
       /\ ws_state' = [ws_state EXCEPT ![s] = c.next]
    /\ step' = [step EXCEPT ![s] = StepRec("close", s, NoStep.msg, FALSE)]
    /\ UNCHANGED << has_analyzer, frame_skip, outbox, call, hist, scoreVars >>

----------------------------------------------------------------------------
(* Initial state: after construction *)

Init ==
    /\ prev_ear    = [i \in Instances |-> None]
    /\ blink_count = [i \in Instances |-> 0]
    /\ frame_count = [i \in Instances |-> 0]
    /\ call = NoCall
    /\ hist = [i \in Instances |-> << >>]
    /\ ws_state   = [i \in Instances |-> "CREATED"]
    /\ has_analyzer = [i \in Instances |-> FALSE]
    /\ frame_skip = [i \in Instances |-> 0]
    /\ outbox     = [i \in Instances |-> << >>]
    /\ step       = [i \in Instances |-> NoStep]
    /\ metrics = NoMetrics
    /\ result  = NoResult
    /\ prev_result = NoPrev

(* One FaceAnalyzer fed directly with frames *)
NextAnalyzer ==
    \/ \E f \in Frames : AnalyzeFrame("i1", f)
    \/ Reset("i1")

(* Streaming sessions, one per connection *)
Next ==
    \/ \E s \in Instances : Accept(s)
    \/ \E s \in Instances, ok \in BOOLEAN : Construct(s, ok)
    \/ \E s \in Instances, msg \in Messages, sent \in BOOLEAN : ReceiveFrame(s, msg, sent)
    \/ \E s \in Instances : Disconnect(s)

Spec == Init /\ [][Next]_vars

SpecAnalyzer == Init /\ [][NextAnalyzer]_vars

(* calculate_overall_score applied to Metrics values *)
InitScore ==
    /\ prev_ear    = [i \in Instances |-> None]
    /\ blink_count = [i \in Instances |-> 0]
    /\ frame_count = [i \in Instances |-> 0]
    /\ call = NoCall
    /\ hist = [i \in Instances |-> << >>]
    /\ ws_state   = [i \in Instances |-> "CREATED"]
    /\ has_analyzer = [i \in Instances |-> FALSE]
    /\ frame_skip = [i \in Instances |-> 0]
    /\ outbox     = [i \in Instances |-> << >>]
    /\ step       = [i \in Instances |-> NoStep]
    /\ metrics \in MetricInputs
    /\ result = NoResult
    /\ prev_result = NoPrev

NextScore ==
    \/ Classify
    \/ \E m \in NextInputs : ClassifyNext(m)

SpecScore == InitScore /\ [][NextScore]_vars

----------------------------------------------------------------------------
(* Properties *)

Closed(e)  == e # None /\ e # NaN /\ e < 20
NotClosedOrAbsent(e) == e = None \/ (e # NaN /\ e >= 20)

(* number of frames of h that are closed while the frame before is absent or open *)
OpenToClosedEdges(h) ==
    Cardinality({ k \in 1..Len(h) :
        Closed(h[k]) /\ NotClosedOrAbsent(IF k = 1 THEN None ELSE h[k-1]) })

(* C1: on a face-detected frame the blink count goes up by exactly 1 when the  *)
(* frame's average EAR is < 0.2 and the previous one is absent or >= 0.2, and  *)
(* stays as it is on every other frame; the blink count is the number of such  *)
(* edges in the sequence fed, 2 for [0.25, 0.15, 0.10, 0.25, 0.15].            *)
C1_BlinkCountsEdges ==
    /\ blink_count["i1"] = OpenToClosedEdges(hist["i1"])
    /\ (call.op = "analyze_frame" /\ call.frame.det = "face") =>
          blink_count[call.self] =
              call.pre.blink_count
              + (IF Closed(call.frame.ear) /\ NotClosedOrAbsent(call.pre.prev_ear)
                 THEN 1 ELSE 0)
    /\ hist["i1"] = << 25, 15, 10, 25, 15 >> => blink_count["i1"] = 2

C1_Witness ==
    /\ hist["i1"] = << 25, 15, 10, 25, 15 >>
    /\ blink_count["i1"] = 2
    /\ call.op = "analyze_frame"

InLoop(o) == o \in {"drop", "frame"}

(* C2: of two consecutive frame messages of a session exactly one is processed, *)
(* by the parity of the frame-skip counter after its increment (odd: dropped);  *)
(* a dropped frame sends nothing and leaves prev_ear, blink_count, frame_count. *)
C2_EveryOtherFrame ==
    \A s \in Instances :
        /\ step[s].op = "drop" =>
              /\ frame_skip[s] % 2 = 1
              /\ Len(outbox[s]) = step[s].pre_sent
              /\ StateOf(s) = step[s].pre
        /\ step[s].op = "frame" => frame_skip[s] % 2 = 0
        /\ (InLoop(step[s].op) /\ InLoop(step[s].prev_op)) =>
              step[s].op # step[s].prev_op

C2_Witness ==
    \E s \in Instances :
        /\ step[s].op = "drop" /\ step[s].prev_op = "frame"
        /\ frame_skip[s] = 3
        /\ Len(outbox[s]) = 1

DecodableImage(msg) == msg.json = "dict" /\ msg.b64 = "ok" /\ msg.image = "image"

LastSent(s) == outbox[s][Len(outbox[s])]

(* C3: a processed frame in which the detector finds no face is answered by a *)
(* no-face message (face_detected false) and leaves prev_ear, blink_count and *)
(* frame_count as they were.                                                  *)
C3_NoFaceAnswered ==
    \A s \in Instances :
        (/\ step[s].op = "frame" /\ step[s].sent
         /\ DecodableImage(step[s].msg) /\ step[s].msg.frame.det = "noface") =>
            /\ Len(outbox[s]) = step[s].pre_sent + 1
            /\ LastSent(s).type = "noface"
            /\ ~LastSent(s).face_detected
            /\ StateOf(s) = step[s].pre

(* the frame's processing fails: bytes that are no base64 or no image, or an *)
(* exception of the detector or of the metric computation                    *)
FrameFails(msg) ==
    /\ msg.json = "dict"
    /\ \/ msg.b64 = "bad"
       \/ msg.b64 = "ok" /\ msg.image # "image"
       \/ DecodableImage(msg) /\ msg.frame.det = "raise"
       \/ DecodableImage(msg) /\ msg.frame.det = "face" /\ ~msg.frame.pose.ok

(* C4: a failure while one frame is processed is answered by an error message *)
(* and the session stays ACTIVE (the transport still being there to carry the *)
(* answer), so that the next frame message is received and handled.           *)
C4_FrameFailureKeepsSession ==
    \A s \in Instances :
        (step[s].op = "frame" /\ step[s].sent /\ FrameFails(step[s].msg)) =>
            /\ ws_state[s] = "ACTIVE"
            /\ Len(outbox[s]) = step[s].pre_sent + 1
            /\ LastSent(s).type = "error"
            /\ frame_skip[s] < MaxMsgs =>
                  \A m \in Messages : ENABLED ReceiveFrame(s, m, FALSE)

C4_Witness ==
    \E s \in Instances :
        /\ step[s].op = "frame" /\ step[s].sent /\ FrameFails(step[s].msg)
        /\ ws_state[s] = "ACTIVE"
        /\ Len(outbox[s]) = 2
        /\ outbox[s][1].type = "error"
        /\ outbox[s][2].type = "error"

(* C5: an exception raised during the metric computation of a frame leaves *)
(* prev_ear, blink_count and frame_count as they were before the frame.    *)
C5_ExceptionLeavesState ==
    (call.op = "analyze_frame" /\ call.kind = "raise") =>
        StateOf(call.self) = call.pre

InRange(x) == 0 <= x /\ x <= 10000

(* C6: all six metric fields of a face-detected frame are within [0, 100]. *)
C6_MetricsInRange ==
    (call.op = "analyze_frame" /\ call.kind = "dict") =>
        /\ InRange(call.metrics.eye_blink_rate)
        /\ InRange(call.metrics.lip_sync_score)
        /\ InRange(call.metrics.lighting_consistency)
        /\ InRange(call.metrics.facial_artifacts)
        /\ InRange(call.metrics.texture_quality)
        /\ InRange(call.metrics.motion_smoothness)

WeightedSum(m) ==
      15 * m.eye_blink_rate + 25 * m.lip_sync_score + 20 * m.lighting_consistency
    + 25 * (10000 - m.facial_artifacts) + 10 * m.texture_quality
    + 5 * m.motion_smoothness

Example90 ==
    [eye_blink_rate |-> 9000, lip_sync_score |-> 9000, lighting_consistency |-> 9000,
     facial_artifacts |-> 1000, texture_quality |-> 9000, motion_smoothness |-> 9000]
Example41 ==
    [eye_blink_rate |-> 2000, lip_sync_score |-> 6000, lighting_consistency |-> 5000,
     facial_artifacts |-> 8000, texture_quality |-> 5500, motion_smoothness |-> 6000]

(* C7: the score is the weighted sum; score >= 75 gives "real" with confidence *)
(* min(score/100, 0.95), 50 <= score < 75 gives "uncertain" with               *)
(* 0.5 + (score-50)/100, score < 50 gives "fake" with min((100-score)/100,     *)
(* 0.95); score 90 gives real, 0.90 and score 41.5 gives fake, 0.585.          *)
C7_ScoreAndLabel ==
    result # NoResult =>
        LET sc == WeightedSum(metrics) IN
        /\ sc >= 750000 =>
              result = [label |-> "real", confidence |-> Min(sc, 950000)]
        /\ (500000 <= sc /\ sc < 750000) =>
              result = [label |-> "uncertain",
                        confidence |-> 500000 + (sc - 500000)]
        /\ sc < 500000 =>
              result = [label |-> "fake", confidence |-> Min(1000000 - sc, 950000)]
        /\ metrics = Example90 =>
              sc = 900000 /\ result = [label |-> "real", confidence |-> 900000]
        /\ metrics = Example41 =>
              sc = 415000 /\ result = [label |-> "fake", confidence |-> 585000]

C7_Witness ==
    /\ metrics = Example41
    /\ result = [label |-> "fake", confidence |-> 585000]

(* C8 as stated: at score 50 and at score 75 the "uncertain" formula and the *)
(* adjoining formula give the same value, which is the confidence returned,   *)
(* 0.5 at score 50 and 0.95 at score 75.                                      *)
C8_ContinuousWith95At75 ==
    result # NoResult =>
        /\ score(metrics) = 500000 =>
              /\ result.confidence = 500000
              /\ confidence_uncertain(500000) = confidence_fake(500000)
        /\ score(metrics) = 750000 =>
              /\ result.confidence = 950000
              /\ confidence_uncertain(750000) = confidence_real(750000)

(* C8, amended: at score 50 and at score 75 the "uncertain" formula and the *)
(* adjoining formula give the same value, which is the confidence returned,  *)
(* 0.5 at score 50 and 0.75 at score 75.                                     *)
C8_ContinuousWith75At75 ==
    result # NoResult =>
        /\ score(metrics) = 500000 =>
              /\ result.confidence = 500000
              /\ confidence_uncertain(500000) = result.confidence
              /\ confidence_fake(500000) = result.confidence
        /\ score(metrics) = 750000 =>
              /\ result.confidence = 750000
              /\ confidence_uncertain(750000) = result.confidence
              /\ confidence_real(750000) = result.confidence

C8_Witness ==
    /\ result.label = "real"
    /\ score(metrics) = 750000
    /\ prev_result.label = "uncertain"
    /\ prev_result.score = 500000

(* C9 as stated: of two calls, the one with the lower score never returns the *)
(* higher confidence.                                                         *)
C9_MonotoneEverywhere ==
    (prev_result # NoPrev /\ result # NoResult) =>
        /\ prev_result.score <= score(metrics) =>
              prev_result.confidence <= result.confidence
        /\ prev_result.score >= score(metrics) =>
              prev_result.confidence >= result.confidence

(* C9, amended: of two calls with scores in [50, 100], the one with the lower *)
(* score never returns the higher confidence.                                 *)
C9_MonotoneFrom50 ==
    (/\ prev_result # NoPrev /\ result # NoResult
     /\ prev_result.score >= 500000 /\ score(metrics) >= 500000) =>
        /\ prev_result.score <= score(metrics) =>
              prev_result.confidence <= result.confidence
        /\ prev_result.score >= score(metrics) =>
              prev_result.confidence >= result.confidence

C9_Witness ==
    /\ prev_result.label = "uncertain"
    /\ result.label = "real"
    /\ prev_result.confidence < result.confidence
    /\ result.confidence = 950000

Order == { << "CREATED", "ACTIVE" >>, << "ACTIVE", "CLOSED" >> }

(* C10: a session moves CREATED -> ACTIVE -> CLOSED; once a disconnect or a  *)
(* session error is observed the session is CLOSED, from where nothing is    *)
(* received, processed or sent any more, and its blink tracker is in the     *)
(* initial state (prev_ear absent, both counts 0).                           *)
C10_ClosedIsTerminal ==
    [][ \A s \in Instances :
          /\ ws_state'[s] # ws_state[s] => << ws_state[s], ws_state'[s] >> \in Order
          /\ (step'[s].op = "close" /\ step'[s] # step[s]) => ws_state'[s] = "CLOSED"
          /\ (step'[s].op = "frame" /\ step'[s] # step[s] /\ ~step'[s].sent) =>
                ws_state'[s] = "CLOSED"
          /\ ws_state'[s] = "CLOSED" =>
                /\ prev_ear'[s] = None
                /\ blink_count'[s] = 0
                /\ frame_count'[s] = 0
          /\ ws_state[s] = "CLOSED" =>
                /\ ws_state'[s] = "CLOSED"
                /\ outbox'[s] = outbox[s]
                /\ frame_skip'[s] = frame_skip[s]
                /\ step'[s] = step[s]
      ]_vars

C10_Witness ==
    \E s \in Instances :
        /\ ws_state[s] = "CLOSED"
        /\ step[s].op = "close"
        /\ Len(outbox[s]) = 1
        /\ frame_skip[s] < MaxMsgs

(* what one session owns: its locals, its analyzer and the messages it sent *)
Own(s) ==
    [ws |-> ws_state[s], has |-> has_analyzer[s], skip |-> frame_skip[s],
     out |-> outbox[s], st |-> StateOf(s), fed |-> hist[s]]

(* the session a lone connection is in after the iteration e, from p *)
Alone(p, e) ==
    IF e.op = "accept" THEN [p EXCEPT !.ws = "ACTIVE"]
    ELSE IF e.op = "construct"
    THEN [p EXCEPT !.has = TRUE, !.skip = 0, !.st = InitialState]
    ELSE IF e.op = "drop" THEN [p EXCEPT !.skip = @ + 1]
    ELSE IF e.op = "frame"
    THEN LET r == process_frame(p.st, e.msg) IN
         IF e.sent
         THEN [p EXCEPT !.skip = @ + 1, !.out = Append(@, r.reply), !.st = r.st]
         ELSE [p EXCEPT !.skip = @ + 1, !.ws = "CLOSED", !.st = InitialState]
    ELSE [p EXCEPT !.ws = "CLOSED",
                   !.st = IF p.has THEN InitialState ELSE p.st]

(* C11: sessions are independent.  Whatever the interleaving, an iteration of *)
(* one session leaves the other session's analyzer (prev_ear, blink_count,    *)
(* frame_count), frame-skip counter, position and sent messages as they are,  *)
(* and takes its own session to where it would take it were it alone: the     *)
(* frame is dropped by the parity of the session's own count of messages.     *)
C11_SessionsIndependent ==
    [][ \A s \in Instances :
          step'[s] # step[s] =>
              /\ \A t \in Instances \ {s} : Own(t)' = Own(t) /\ step'[t] = step[t]
              /\ Own(s)' = Alone(Own(s), step'[s])
              /\ InLoop(step'[s].op) =>
                    (step'[s].op = "drop") = (Own(s).skip % 2 = 0)
      ]_vars

C11_Witness ==
    /\ ws_state["i1"] = "ACTIVE" /\ ws_state["i2"] = "ACTIVE"
    /\ frame_skip["i1"] = 3 /\ frame_skip["i2"] = 2
    /\ Len(outbox["i1"]) = 1 /\ Len(outbox["i2"]) = 1
    /\ step["i1"].op = "drop" /\ step["i2"].op = "frame"

(* C12: in every state of a FaceAnalyzer 0 <= blink_count and                *)
(* 2 * blink_count <= frame_count + 1 (no two blinks on consecutive counted   *)
(* frames, so at most half the counted frames, rounded up, are blinks), and   *)
(* no call of analyze_frame lowers either counter: only reset does.           *)
C12_BlinksAtMostHalfTheFrames ==
    \A i \in Instances :
        /\ 0 <= blink_count[i]
        /\ 2 * blink_count[i] <= frame_count[i] + 1
        /\ blink_count[i] <= frame_count[i]
        /\ (call.op = "analyze_frame" /\ call.self = i) =>
              /\ blink_count[i] >= call.pre.blink_count
              /\ frame_count[i] >= call.pre.frame_count
              /\ blink_count[i] - call.pre.blink_count <= 1
              /\ (call.pre.prev_ear # None /\ call.pre.prev_ear # NaN
                  /\ call.pre.prev_ear < 20) =>
                    blink_count[i] = call.pre.blink_count
        /\ (call.op = "reset" /\ call.self = i) =>
              blink_count[i] = 0 /\ frame_count[i] = 0

C12_Witness ==
    /\ call.op = "analyze_frame"
    /\ blink_count["i1"] = 3
    /\ frame_count["i1"] = 5
    /\ call.pre.blink_count = 2

====
